---- MODULE Spec2Model ----
(***************************************************************************)
(* Model of the Mistral OCR tool: the input dispatcher                     *)
(* (OCRService.process_documents), the remote client wrapper               *)
(* (MistralClient.process_document) and the two HTTP handlers              *)
(* (POST /ocr/process, POST /ocr/batch).                                   *)
(*                                                                         *)
(* Strings are sequences of one-character strings so that startswith,      *)
(* endswith, lower, os.path.join, os.path.basename and Path.suffix are     *)
(* computed the way the code computes them.                                *)
(***************************************************************************)
EXTENDS Integers, Sequences, FiniteSets, TLC

(***************************************************************************)
(* Bounds of the model                                                     *)
(***************************************************************************)
MaxListing == 3
MaxBatch == 3

(***************************************************************************)
(* String helpers                                                          *)
(***************************************************************************)
UpperChars == <<"A","B","C","D","E","F","G","H","I","J","K","L","M",
                "N","O","P","Q","R","S","T","U","V","W","X","Y","Z">>
LowerChars == <<"a","b","c","d","e","f","g","h","i","j","k","l","m",
                "n","o","p","q","r","s","t","u","v","w","x","y","z">>

LowerChar(c) ==
    IF \E i \in 1..Len(UpperChars) : UpperChars[i] = c
    THEN LowerChars[CHOOSE i \in 1..Len(UpperChars) : UpperChars[i] = c]
    ELSE c

\* str.lower()
Lower(s) == [i \in 1..Len(s) |-> LowerChar(s[i])]

\* str.startswith(prefix)
StartsWith(s, p) == Len(s) >= Len(p) /\ SubSeq(s, 1, Len(p)) = p

\* str.endswith(suffix)
EndsWith(s, x) == Len(s) >= Len(x) /\ SubSeq(s, Len(s) - Len(x) + 1, Len(s)) = x

\* index of the last occurrence of character c in s, 0 when there is none
RFind(s, c) ==
    IF \E i \in 1..Len(s) : s[i] = c
    THEN CHOOSE i \in 1..Len(s) : s[i] = c /\ \A j \in (i+1)..Len(s) : s[j] # c
    ELSE 0

\* os.path.join(a, b) for a relative b (POSIX)
Join(a, b) ==
    IF a = <<>> \/ a[Len(a)] = "/" THEN a \o b ELSE a \o <<"/">> \o b

\* os.path.basename(p) (POSIX): what follows the last slash
Basename(p) == SubSeq(p, RFind(p, "/") + 1, Len(p))

\* pathlib.PurePath.suffix of a bare file name
Suffix(name) ==
    LET i == RFind(name, ".")
    IN  IF 1 < i /\ i < Len(name) THEN SubSeq(name, i, Len(name)) ELSE <<>>

(***************************************************************************)
(* utils/constants.py                                                      *)
(***************************************************************************)
URL_PREFIXES == << <<"h","t","t","p",":","/","/">>,
                   <<"h","t","t","p","s",":","/","/">> >>

SUPPORTED_EXTENSIONS == << <<".","p","d","f">>,
                           <<".","p","n","g">>,
                           <<".","j","p","g">>, <<".","j","p","e","g">>,
                           <<".","t","i","f","f">>, <<".","t","i","f">>,
                           <<".","b","m","p">> >>

is_url(path) ==
    \E i \in 1..Len(URL_PREFIXES) : StartsWith(path, URL_PREFIXES[i])

is_supported_file_no_lower(path) ==
    \E i \in 1..Len(SUPPORTED_EXTENSIONS) : EndsWith(path, SUPPORTED_EXTENSIONS[i])

is_supported_file(path) ==
    \E i \in 1..Len(SUPPORTED_EXTENSIONS) :
        EndsWith(Lower(path), SUPPORTED_EXTENSIONS[i])

(***************************************************************************)
(* utils/exceptions.py: the class hierarchy, as a parent relation          *)
(***************************************************************************)
ExcParent ==
    [ OCRToolError             |-> "Exception",
      APIError                 |-> "OCRToolError",
      ConfigurationError       |-> "OCRToolError",
      FileError                |-> "OCRToolError",
      UnsupportedFileTypeError |-> "FileError",
      InvalidInputError        |-> "OCRToolError",
      HTTPException            |-> "Exception",
      FileNotFoundError        |-> "OSError",
      PermissionError          |-> "OSError",
      OSError                  |-> "Exception",
      RuntimeError             |-> "Exception",
      ImportError              |-> "Exception",
      IsADirectoryError        |-> "OSError",
      SystemExit               |-> "BaseException",
      Exception                |-> "BaseException" ]

RECURSIVE IsInstance(_, _)
\* isinstance(e, cls): cls is the class of e or one of its ancestors
IsInstance(c, cls) ==
    IF c = cls THEN TRUE
    ELSE IF c \in DOMAIN ExcParent THEN IsInstance(ExcParent[c], cls)
    ELSE FALSE

\* exception values: class, message (a sequence of text fragments),
\* HTTP status (0 unless the class is HTTPException)
Exc(c, m) == [cls |-> c, msg |-> m, status |-> 0]

\* OCRToolError.__init__ / __str__
OCRToolError(m) == Exc("OCRToolError", m)
\* APIError.__init__ without status_code
APIError(m) == Exc("APIError", m)
\* FileError.__init__ with a file path: the path is appended to the message
FileError(m) == Exc("FileError", m \o <<" (Path: <path>)">>)
UnsupportedFileTypeError == Exc("UnsupportedFileTypeError",
                                <<"Unsupported file type", " (Path: <path>)">>)
InvalidInputError(m) == Exc("InvalidInputError", m)
ConfigurationError(m) == Exc("ConfigurationError", m)
\* fastapi.HTTPException(status_code, detail); str() of it shows both
HTTPException(code, d) == [cls |-> "HTTPException", msg |-> d, status |-> code]

NoExc == Exc("None", <<>>)

\* str(e)
StrOf(e) ==
    IF e.cls = "HTTPException" THEN <<"<status>: ">> \o e.msg ELSE e.msg

(***************************************************************************)
(* The strings the model draws its inputs from                             *)
(***************************************************************************)
S_http_a   == <<"h","t","t","p",":","/","/","a">>
S_https_b  == <<"h","t","t","p","s",":","/","/","b">>
S_http1_a  == <<"h","t","t","p",":","/","a">>
S_HTTP_a   == <<"H","T","T","P",":","/","/","a">>
S_f_pdf    == <<"/","f",".","p","d","f">>
S_f_txt    == <<"/","f",".","t","x","t">>
S_d        == <<"/","d">>
S_d_slash  == <<"d","/">>

N_a_pdf    == <<"a",".","p","d","f">>
N_b_txt    == <<"b",".","t","x","t">>
N_c_PNG    == <<"c",".","P","N","G">>
N_e_pdf    == <<"e",".","p","d","f">>

N_x_pdf    == <<"x",".","p","d","f">>
N_y_txt    == <<"y",".","t","x","t">>
N_z        == <<"z">>

TmpPrefix  == <<"/","t","m","p","/","t">>

\* inputs handed to process_documents by a direct caller
DirectInputs == {S_http_a, S_https_b, S_http1_a, S_HTTP_a,
                 S_f_pdf, S_f_txt, S_d, S_d_slash}

\* strings a client puts in the url / urls fields of a request
RawUrls == {S_http_a, S_https_b, S_http1_a, S_HTTP_a, S_f_pdf, S_d,
            <<"f","i","l","e",":","/","/","/","f",".","p","d","f">>,
            <<"f","t","p",":","/","/","a">>}

\* position of the first c in s, 0 when there is none
IndexOf(s, c) ==
    IF \E i \in 1..Len(s) : s[i] = c
    THEN CHOOSE i \in 1..Len(s) : s[i] = c /\ \A j \in 1..(i-1) : s[j] # c
    ELSE 0

RECURSIVE SkipSlashes(_)
SkipSlashes(s) ==
    IF s # <<>> /\ Head(s) = "/" THEN SkipSlashes(Tail(s)) ELSE s

\* a validation that keeps the string as the client wrote it
HttpUrlKeepCase(raw) ==
    LET i == IndexOf(raw, ":")
        scheme == Lower(SubSeq(raw, 1, i - 1))
        rest == SkipSlashes(SubSeq(raw, i + 1, Len(raw)))
    IN  [ok |-> /\ i > 1
                /\ scheme \in {<<"h","t","t","p">>, <<"h","t","t","p","s">>}
                /\ rest # <<>>,
         str |-> raw]

\* pydantic HttpUrl of the request models: whether raw validates as an
\* http or https URL, and str() of the validated value: scheme and host in
\* lower case, "//" after the scheme, "/" for an empty path
HttpUrl(raw) ==
    LET i == IndexOf(raw, ":")
        scheme == Lower(SubSeq(raw, 1, i - 1))
        rest == SkipSlashes(SubSeq(raw, i + 1, Len(raw)))
        j == IndexOf(rest, "/")
        host == IF j = 0 THEN rest ELSE SubSeq(rest, 1, j - 1)
        path == IF j = 0 THEN <<"/">> ELSE SubSeq(rest, j, Len(rest))
    IN  [ok |-> /\ i > 1
                /\ scheme \in {<<"h","t","t","p">>, <<"h","t","t","p","s">>}
                /\ host # <<>>,
         str |-> scheme \o <<":","/","/">> \o Lower(host) \o path]

\* string forms of the validated HttpUrl values of a request
UrlPool == { HttpUrl(raw).str : raw \in { x \in RawUrls : HttpUrl(x).ok } }

\* file names of uploads
UploadNames == {N_x_pdf, N_y_txt, N_z}

\* entries a directory can hold: name and kind
EntryPool == { [name |-> N_a_pdf, kind |-> "file"],
               [name |-> N_b_txt, kind |-> "file"],
               [name |-> N_c_PNG, kind |-> "file"],
               [name |-> N_e_pdf, kind |-> "dir"] }

\* tempfile.NamedTemporaryFile(suffix=...).name
TempName(suffix) == TmpPrefix \o suffix

TempPaths == { TempName(Suffix(n)) : n \in UploadNames }

Paths == DirectInputs \cup UrlPool \cup TempPaths

Kinds == {"none", "file", "dir"}

\* values the remote OCR service can return (opaque to the tool)
Results == {"r1", "r2"}

\* what can go wrong inside one call of the remote client
Faults == {"none", "perm", "upload", "api_mistral", "api_other"}

\* directory listings: sequences of distinct entries, in listing order
Listings ==
    { l \in UNION { [1..n -> EntryPool] : n \in 0..MaxListing } :
        \A i, j \in 1..Len(l) : i # j => l[i].name # l[j].name }

\* lists of at most MaxBatch URLs, the empty one included
UrlLists == UNION { [1..n -> UrlPool] : n \in 0..MaxBatch }

\* no filtering at all
FilterSupportedAll(fl) == fl

RECURSIVE FilterSupported(_)
\* OCRService._filter_supported_files
FilterSupported(fl) ==
    IF fl = <<>> THEN <<>>
    ELSE IF is_supported_file(Head(fl))
         THEN <<Head(fl)>> \o FilterSupported(Tail(fl))
         ELSE FilterSupported(Tail(fl))

(***************************************************************************)
(* utils/api_client.py: MistralClient.process_document                     *)
(* ref: the reference; exists: whether open(ref) finds a regular file;     *)
(* fault: what the remote SDK or the operating system does during the      *)
(* call; result: what the remote service returns when nothing fails.       *)
(* raw is the class of the underlying exception that the wrapper converts. *)
(***************************************************************************)
CallOk(r) == [ok |-> TRUE, result |-> r, exc |-> NoExc, raw |-> "None"]
CallRaise(e, rawcls) == [ok |-> FALSE, result |-> "none", exc |-> e, raw |-> rawcls]

\* the outer "except Exception" of process_document
WrapApiError(rawmsg) ==
    IF \E i \in 1..Len(rawmsg) : rawmsg[i] = "Mistral API unavailable"
    THEN APIError(<<"Mistral API error: ">> \o rawmsg)
    ELSE APIError(<<"Unexpected error: ">> \o rawmsg)

\* client.ocr.process inside the try block of process_document: the
\* result, or the APIError that the outer except clause raises
OcrProcessUnwrapped(fault, result) ==
    CASE fault = "api_mistral" ->
            CallRaise(Exc("RuntimeError", <<"Mistral API unavailable">>), "RuntimeError")
      [] fault = "api_other" ->
            CallRaise(Exc("RuntimeError", <<"connection reset">>), "RuntimeError")
      [] OTHER -> CallOk(result)

OcrProcess(fault, result) ==
    CASE fault = "api_mistral" ->
            CallRaise(WrapApiError(<<"Mistral API unavailable">>), "RuntimeError")
      [] fault = "api_other" ->
            CallRaise(WrapApiError(<<"connection reset">>), "RuntimeError")
      [] OTHER -> CallOk(result)

process_document(ref, exists, fault, result) ==
    IF is_url(ref)
    THEN OcrProcess(fault, result)
    ELSE IF ~is_supported_file(ref)
         THEN CallRaise(UnsupportedFileTypeError, "None")
    ELSE IF ~exists
         THEN CallRaise(FileError(<<"File not found: <path>">>), "FileNotFoundError")
    ELSE IF fault = "perm"
         THEN CallRaise(FileError(<<"Permission denied: <path>">>), "PermissionError")
    ELSE IF fault = "upload"
         THEN CallRaise(FileError(<<"Error reading file: ", "upload failed">>), "RuntimeError")
    ELSE OcrProcess(fault, result)

(***************************************************************************)
(* JSON text as json.dump(obj, f, indent=4) writes it and json.load reads  *)
(* it. A value is a tagged record: str (characters), int, null, list       *)
(* (sequence of values), dict (sequence of key/value members, in order).   *)
(***************************************************************************)
JStr(s) == [t |-> "str", v |-> s]
JInt(n) == [t |-> "int", v |-> n]
JNull == [t |-> "null", v |-> <<>>]
JList(q) == [t |-> "list", v |-> q]
JDict(q) == [t |-> "dict", v |-> q]
Member(key, val) == [k |-> key, v |-> val]

\* json.dump(..., indent=4)
indent == 4

DigitChars == <<"0","1","2","3","4","5","6","7","8","9">>

RECURSIVE IntToStr(_)
\* str(n) of a non-negative int
IntToStr(n) ==
    IF n < 10 THEN <<DigitChars[n + 1]>>
    ELSE IntToStr(n \div 10) \o <<DigitChars[(n % 10) + 1]>>

\* no escaping at all
EscapeCharRaw(c) == <<c>>

\* json.encoder: the escape of one character of a string
EscapeChar(c) ==
    CASE c = "\"" -> <<"\\", "\"">>
      [] c = "\\" -> <<"\\", "\\">>
      [] c = "\n" -> <<"\\", "n">>
      [] c = "\t" -> <<"\\", "t">>
      [] c = "\r" -> <<"\\", "r">>
      [] OTHER -> <<c>>

RECURSIVE EscapeStr(_)
EscapeStr(s) ==
    IF s = <<>> THEN <<>> ELSE EscapeChar(Head(s)) \o EscapeStr(Tail(s))

EncodeStr(s) == <<"\"">> \o EscapeStr(s) \o <<"\"">>

\* the line break and the indentation of nesting level lvl
NewlineIndent(lvl) == <<"\n">> \o [i \in 1..(indent * lvl) |-> " "]

RECURSIVE JsonEncode(_, _)
RECURSIVE EncodeItems(_, _, _)
RECURSIVE EncodeMembers(_, _, _)
\* the text of value v whose opening bracket is at nesting level lvl
JsonEncode(v, lvl) ==
    CASE v.t = "str" -> EncodeStr(v.v)
      [] v.t = "int" -> IntToStr(v.v)
      [] v.t = "null" -> <<"n","u","l","l">>
      [] v.t = "list" ->
            IF v.v = <<>> THEN <<"[", "]">>
            ELSE <<"[">> \o EncodeItems(v.v, 1, lvl + 1) \o NewlineIndent(lvl) \o <<"]">>
      [] v.t = "dict" ->
            IF v.v = <<>> THEN <<"{", "}">>
            ELSE <<"{">> \o EncodeMembers(v.v, 1, lvl + 1) \o NewlineIndent(lvl) \o <<"}">>

EncodeItems(q, i, lvl) ==
    IF i > Len(q) THEN <<>>
    ELSE NewlineIndent(lvl) \o JsonEncode(q[i], lvl)
         \o (IF i < Len(q) THEN <<",">> ELSE <<>>)
         \o EncodeItems(q, i + 1, lvl)

EncodeMembers(q, i, lvl) ==
    IF i > Len(q) THEN <<>>
    ELSE NewlineIndent(lvl) \o EncodeStr(q[i].k) \o <<":", " ">>
         \o JsonEncode(q[i].v, lvl)
         \o (IF i < Len(q) THEN <<",">> ELSE <<>>)
         \o EncodeMembers(q, i + 1, lvl)

\* json.dump(obj, f, indent=4): the text written to f
JsonDump(obj) == JsonEncode(obj, 0)

\* json.load: a recursive-descent reader over text s; every reader returns
\* whether it succeeded, the value read and the position after it
Bad == [ok |-> FALSE, val |-> JNull, pos |-> 0]
Good(v, p) == [ok |-> TRUE, val |-> v, pos |-> p]

IsWs(c) == c \in {" ", "\n", "\t", "\r"}

RECURSIVE SkipWs(_, _)
SkipWs(s, i) == IF i <= Len(s) /\ IsWs(s[i]) THEN SkipWs(s, i + 1) ELSE i

\* the character that the escape \c stands for, <<>> when there is none
Unescape(c) ==
    CASE c = "\"" -> <<"\"">>
      [] c = "\\" -> <<"\\">>
      [] c = "/" -> <<"/">>
      [] c = "n" -> <<"\n">>
      [] c = "t" -> <<"\t">>
      [] c = "r" -> <<"\r">>
      [] OTHER -> <<>>

RECURSIVE ParseStr(_, _, _)
\* the string whose opening quote is just before position i
ParseStr(s, i, acc) ==
    IF i > Len(s) THEN Bad
    ELSE IF s[i] = "\"" THEN Good(JStr(acc), i + 1)
    ELSE IF s[i] = "\\"
         THEN IF i + 1 > Len(s) \/ Unescape(s[i + 1]) = <<>> THEN Bad
              ELSE ParseStr(s, i + 2, acc \o Unescape(s[i + 1]))
    ELSE IF s[i] \in {"\n", "\t", "\r"} THEN Bad
    ELSE ParseStr(s, i + 1, Append(acc, s[i]))

IsDigit(c) == \E d \in 1..10 : DigitChars[d] = c
DigitVal(c) == (CHOOSE d \in 1..10 : DigitChars[d] = c) - 1

RECURSIVE ParseDigits(_, _, _)
ParseDigits(s, i, acc) ==
    IF i <= Len(s) /\ IsDigit(s[i])
    THEN ParseDigits(s, i + 1, acc * 10 + DigitVal(s[i]))
    ELSE Good(JInt(acc), i)

RECURSIVE ParseValue(_, _)
RECURSIVE ParseElems(_, _, _)
RECURSIVE ParseMembers(_, _, _)
ParseValue(s, i0) ==
    LET i == SkipWs(s, i0)
    IN  IF i > Len(s) THEN Bad
        ELSE IF s[i] = "\"" THEN ParseStr(s, i + 1, <<>>)
        ELSE IF IsDigit(s[i]) THEN ParseDigits(s, i, 0)
        ELSE IF s[i] = "n"
             THEN IF i + 3 <= Len(s) /\ SubSeq(s, i, i + 3) = <<"n","u","l","l">>
                  THEN Good(JNull, i + 4) ELSE Bad
        ELSE IF s[i] = "["
             THEN LET j == SkipWs(s, i + 1)
                  IN  IF j <= Len(s) /\ s[j] = "]" THEN Good(JList(<<>>), j + 1)
                      ELSE ParseElems(s, j, <<>>)
        ELSE IF s[i] = "{"
             THEN LET j == SkipWs(s, i + 1)
                  IN  IF j <= Len(s) /\ s[j] = "}" THEN Good(JDict(<<>>), j + 1)
                      ELSE ParseMembers(s, j, <<>>)
        ELSE Bad

ParseElems(s, i, acc) ==
    LET r == ParseValue(s, i)
        j == SkipWs(s, r.pos)
    IN  IF ~r.ok \/ j > Len(s) THEN Bad
        ELSE IF s[j] = "," THEN ParseElems(s, j + 1, Append(acc, r.val))
        ELSE IF s[j] = "]" THEN Good(JList(Append(acc, r.val)), j + 1)
        ELSE Bad

ParseMembers(s, i0, acc) ==
    LET i == SkipWs(s, i0)
        key == IF i <= Len(s) /\ s[i] = "\"" THEN ParseStr(s, i + 1, <<>>) ELSE Bad
        c == SkipWs(s, key.pos)
        r == IF key.ok /\ c <= Len(s) /\ s[c] = ":" THEN ParseValue(s, c + 1) ELSE Bad
        j == SkipWs(s, r.pos)
    IN  IF ~r.ok \/ j > Len(s) THEN Bad
        ELSE IF s[j] = "," THEN ParseMembers(s, j + 1, Append(acc, Member(key.val.v, r.val)))
        ELSE IF s[j] = "}" THEN Good(JDict(Append(acc, Member(key.val.v, r.val))), j + 1)
        ELSE Bad

\* json.load of the whole text: the value, or Bad when the text is not JSON
JsonLoad(s) ==
    LET r == ParseValue(s, 1)
    IN  IF r.ok /\ SkipWs(s, r.pos) > Len(s) THEN r ELSE Bad

\* keys of the written records and of model_dump()
Key ==
    [ pages    |-> <<"p","a","g","e","s">>,
      index    |-> <<"i","n","d","e","x">>,
      markdown |-> <<"m","a","r","k","d","o","w","n">>,
      model    |-> <<"m","o","d","e","l">>,
      file     |-> <<"f","i","l","e">>,
      response |-> <<"r","e","s","p","o","n","s","e">> ]

\* OCRResponse.model_dump() of the results the remote service returns
ModelDump(r) ==
    IF r = "r1"
    THEN JDict(<< Member(Key.pages, JList(<<
                      JDict(<< Member(Key.index, JInt(0)),
                               Member(Key.markdown, JStr(<<"a", "\"", "\\", "\n", "/">>)) >>) >>)),
                  Member(Key.model, JStr(<<"m">>)) >>)
    ELSE JDict(<< Member(Key.pages, JList(<<
                      JDict(<< Member(Key.index, JInt(12)),
                               Member(Key.markdown, JStr(<<>>)) >>) >>)),
                  Member(Key.model, JNull) >>)

(***************************************************************************)
(* utils/file_handler.py: FileHandler.save_output                          *)
(* A file is whether it exists and its text. fault is what the operating   *)
(* system does during the call.                                            *)
(***************************************************************************)
NoFile == [exists |-> FALSE, text |-> <<>>]
OldFile == [exists |-> TRUE, text |-> <<"o","l","d">>]
FileWith(txt) == [exists |-> TRUE, text |-> txt]

SaveFaults == {"none", "mkdir", "perm", "isdir", "dump_start", "dump_mid"}

\* the list comprehension of lines 48-54
ResponsesDict(ocr) ==
    JList([i \in 1..Len(ocr) |->
            JDict(<< Member(Key.file, JStr(ocr[i].file)),
                     Member(Key.response, ModelDump(ocr[i].response)) >>)])

\* the exception save_output raises (NoExc when none) and the file it leaves
save_output(ocr, fault, file) ==
    LET txt == JsonDump(ResponsesDict(ocr))
    IN  CASE fault \in {"mkdir", "perm"} ->
                [exc |-> FileError(<<"Permission denied: <path>">>), file |-> file]
          [] fault = "isdir" ->
                [exc |-> FileError(<<"Is a directory: <path>">>), file |-> file]
          [] fault = "dump_start" ->
                [exc |-> FileError(<<"Error saving output: ", "No space left on device">>),
                 file |-> FileWith(<<>>)]
          [] fault = "dump_mid" ->
                [exc |-> FileError(<<"Error saving output: ", "No space left on device">>),
                 file |-> FileWith(SubSeq(txt, 1, Len(txt) \div 2))]
          [] OTHER -> [exc |-> NoExc, file |-> FileWith(txt)]

(***************************************************************************)
(* Command lines: sys.argv[1:] as a sequence of tokens, each a sequence of *)
(* characters, and the two argparse parsers that read it.                  *)
(***************************************************************************)
\* names of the sub-parsers, and a token that names none
Tok ==
    [ cli   |-> <<"c","l","i">>,
      api   |-> <<"a","p","i">>,
      serve |-> <<"s","e","r","v","e">> ]

\* option strings of the two parsers
Opt ==
    [ input     |-> <<"-","-","i","n","p","u","t">>,
      i         |-> <<"-","i">>,
      output    |-> <<"-","-","o","u","t","p","u","t">>,
      o         |-> <<"-","o">>,
      verbose   |-> <<"-","-","v","e","r","b","o","s","e">>,
      v         |-> <<"-","v">>,
      log_file  |-> <<"-","-","l","o","g","-","f","i","l","e">>,
      l         |-> <<"-","l">>,
      host      |-> <<"-","-","h","o","s","t">>,
      port      |-> <<"-","-","p","o","r","t">>,
      reload    |-> <<"-","-","r","e","l","o","a","d">>,
      workers   |-> <<"-","-","w","o","r","k","e","r","s">>,
      log_level |-> <<"-","-","l","o","g","-","l","e","v","e","l">> ]

\* option values and defaults
Val ==
    [ out   |-> <<"o","u","t",".","j","s","o","n">>,
      host0 |-> <<"0",".","0",".","0",".","0">>,
      host1 |-> <<"1","2","7",".","0",".","0",".","1">>,
      port9000 |-> <<"9","0","0","0">>,
      abc   |-> <<"a","b","c">>,
      two   |-> <<"2">>,
      info  |-> <<"i","n","f","o">>,
      debug |-> <<"d","e","b","u","g">>,
      upper_debug |-> <<"D","E","B","U","G">>,
      app   |-> <<"a","p","i",".","a","p","p",":","a","p","p">> ]

\* defaults of --port and --workers
default_port == 8000
default_workers == 1

LogLevelChoices == {<<"d","e","b","u","g">>, <<"i","n","f","o">>, <<"w","a","r","n","i","n","g">>, <<"e","r","r","o","r">>, <<"c","r","i","t","i","c","a","l">>}

\* int(s) succeeds
IsInt(s) == s # <<>> /\ \A i \in 1..Len(s) : IsDigit(s[i])

RECURSIVE StrToInt(_)
StrToInt(s) ==
    IF s = <<>> THEN 0
    ELSE StrToInt(SubSeq(s, 1, Len(s) - 1)) * 10 + DigitVal(s[Len(s)])

\* the Namespace before any token is read; <<>> stands for None
Namespace ==
    [mode |-> "none", input |-> <<>>, output |-> <<>>, verbose |-> FALSE,
     log_file |-> <<>>, host |-> Val.host0, port |-> default_port,
     reload |-> FALSE, workers |-> default_workers, log_level |-> Val.info]

ParseError == [ok |-> FALSE, ns |-> Namespace]
Parsed(n) == [ok |-> TRUE, ns |-> n]

\* the token after an option that takes a value: present and not an option
HasValue(tokens) == Len(tokens) >= 2 /\ tokens[2][1] # "-"

Rest(tokens, n) == SubSeq(tokens, n + 1, Len(tokens))

RECURSIVE ParseApiOptions(_, _)
\* the options of the api parser of main.py and of the parser of server.py
ParseApiOptions(tokens, ns) ==
    IF tokens = <<>> THEN Parsed(ns)
    ELSE LET o == Head(tokens)
         IN  IF o = Opt.reload
             THEN ParseApiOptions(Rest(tokens, 1), [ns EXCEPT !.reload = TRUE])
             ELSE IF o \notin {Opt.host, Opt.port, Opt.workers, Opt.log_level, Opt.log_file}
                     \/ ~HasValue(tokens)
             THEN ParseError
             ELSE LET val == tokens[2]
                  IN  IF o = Opt.host
                      THEN ParseApiOptions(Rest(tokens, 2), [ns EXCEPT !.host = val])
                      ELSE IF o = Opt.log_file
                      THEN ParseApiOptions(Rest(tokens, 2), [ns EXCEPT !.log_file = val])
                      ELSE IF o = Opt.log_level
                      THEN IF val \in LogLevelChoices
                           THEN ParseApiOptions(Rest(tokens, 2), [ns EXCEPT !.log_level = val])
                           ELSE ParseError
                      ELSE IF ~IsInt(val) THEN ParseError
                      ELSE IF o = Opt.port
                      THEN ParseApiOptions(Rest(tokens, 2), [ns EXCEPT !.port = StrToInt(val)])
                      ELSE ParseApiOptions(Rest(tokens, 2), [ns EXCEPT !.workers = StrToInt(val)])

RECURSIVE ParseCliOptions(_, _)
\* the options of the cli parser of main.py
ParseCliOptions(tokens, ns) ==
    IF tokens = <<>> THEN Parsed(ns)
    ELSE LET o == Head(tokens)
         IN  IF o \in {Opt.verbose, Opt.v}
             THEN ParseCliOptions(Rest(tokens, 1), [ns EXCEPT !.verbose = TRUE])
             ELSE IF o \notin {Opt.input, Opt.i, Opt.output, Opt.o, Opt.log_file, Opt.l}
                     \/ ~HasValue(tokens)
             THEN ParseError
             ELSE LET val == tokens[2]
                  IN  IF o \in {Opt.input, Opt.i}
                      THEN ParseCliOptions(Rest(tokens, 2), [ns EXCEPT !.input = val])
                      ELSE IF o \in {Opt.output, Opt.o}
                      THEN ParseCliOptions(Rest(tokens, 2), [ns EXCEPT !.output = val])
                      ELSE ParseCliOptions(Rest(tokens, 2), [ns EXCEPT !.log_file = val])

\* main.py create_cli_parser().parse_args(): the mode token selects the
\* sub-parser; --input and --output are required in cli mode
create_cli_parser(tokens) ==
    IF tokens = <<>> THEN Parsed(Namespace)
    ELSE IF Head(tokens) = Tok.cli
    THEN LET r == ParseCliOptions(Tail(tokens), [Namespace EXCEPT !.mode = "cli"])
         IN  IF r.ok /\ r.ns.input # <<>> /\ r.ns.output # <<>> THEN r ELSE ParseError
    ELSE IF Head(tokens) = Tok.api
    THEN ParseApiOptions(Tail(tokens), [Namespace EXCEPT !.mode = "api"])
    ELSE ParseError

\* api/server.py parse_arguments(): options only, no positional argument
ServerParse(tokens) == ParseApiOptions(tokens, Namespace)

\* the option tokens of the five flags, and every combination of them
FlagTokens ==
    << <<Opt.host, Val.host1>>, <<Opt.port, Val.port9000>>, <<Opt.reload>>,
       <<Opt.workers, Val.two>>, <<Opt.log_level, Val.debug>> >>

RECURSIVE FlagList(_, _)
FlagList(S, i) ==
    IF i > Len(FlagTokens) THEN <<>>
    ELSE (IF i \in S THEN FlagTokens[i] ELSE <<>>) \o FlagList(S, i + 1)

ApiArgLists == { FlagList(S, 1) : S \in SUBSET (1..Len(FlagTokens)) }

\* inputs given to --input
CliInputs == {S_http_a, S_f_pdf, S_d}

\* command lines of `python main.py ...`
MainArgvs ==
    { <<>>, <<Tok.cli>>, <<Tok.serve>>, <<Tok.cli, Opt.input, S_f_pdf>> }
    \cup { <<Tok.cli, Opt.input, x, Opt.output, Val.out>> : x \in CliInputs }
    \cup { <<Tok.cli, Opt.v, Opt.o, Val.out, Opt.i, S_http_a>> }
    \cup { <<Tok.api>> \o a : a \in ApiArgLists }

\* command lines of `python api/server.py ...`
ServerArgvs ==
    ApiArgLists \cup { <<Opt.port, Val.abc>>, <<Opt.log_level, Val.upper_debug>>, <<Opt.port>> }

(***************************************************************************)
(* State                                                                   *)
(***************************************************************************)
VARIABLES
    caller,          \* entry point: "direct", "process", "batch", "main", "server"
    fs,              \* kind of each path of Paths on disk
    listing,         \* entries of the input directory, in os.listdir order
    removed,         \* names another process deleted from that directory
    input,           \* input_path_str of the running process_documents
    dpc,             \* position inside process_documents
    branch,          \* branch selected by the classification
    files,           \* _get_files_in_directory result
    supported_files, \* _filter_supported_files result
    idx,             \* position of the directory loop
    ocr_responses,   \* accumulator of the directory loop
    callLog,         \* every client.process_document call: ref and outcome
    callBase,        \* Len(callLog) when the running process_documents began
    ret,             \* how process_documents ended: return value or exception
    req,             \* the HTTP request
    hpc,             \* position inside the HTTP handler
    temp_file_path,  \* path of the temporary copy, <<>> when none was made
    http,            \* the HTTP response
    results,         \* process_batch: results
    failed_urls,     \* process_batch: failed_urls
    bidx,            \* process_batch: position in request.urls
    invocations,     \* inputs of the process_documents calls made so far
    argv,            \* sys.argv[1:]
    args,            \* the Namespace that main.py parsed
    mpc,             \* position inside main.py / api/server.py
    exit_code,       \* exit status of the process, -1 while it runs
    launched,        \* the uvicorn.run calls made, with their arguments
    out_file,        \* the file at the path given to --output
    save_calls,      \* number of FileHandler.save_output calls made
    client_state     \* MistralClient() of main.py: "none", "ok", "raise"

dvars == <<input, dpc, branch, files, supported_files, idx, ocr_responses,
           callLog, callBase, ret, invocations>>
hvars == <<req, hpc, temp_file_path, http, results, failed_urls, bidx>>
evars == <<caller, fs, listing, removed>>
mvars == <<argv, args, mpc, exit_code, launched, out_file, save_calls,
           client_state>>
vars == <<caller, fs, listing, removed, input, dpc, branch, files,
          supported_files, idx, ocr_responses, callLog, callBase, ret,
          req, hpc, temp_file_path, http, results, failed_urls, bidx,
          invocations, argv, args, mpc, exit_code, launched, out_file,
          save_calls, client_state>>

NoRet == [kind |-> "none", value |-> <<>>, exc |-> NoExc]
Return(v) == [kind |-> "return", value |-> v, exc |-> NoExc]
Raise(e) == [kind |-> "raise", value |-> <<>>, exc |-> e]

NoHttp == [status |-> 0, detail |-> <<>>, body |-> <<>>, failed |-> NoExc]
NoReq == [endpoint |-> "none", process_type |-> "none", url |-> <<>>,
          file |-> <<>>, urls |-> <<>>]

\* path of the i-th entry of the input directory
ChildPath(i) == Join(input, listing[i].name)

\* kind of path p on disk now
PathKind(p) ==
    IF p \in DOMAIN fs /\ fs[p] # "none" THEN fs[p]
    ELSE IF \E i \in 1..Len(listing) :
                ChildPath(i) = p /\ listing[i].name \notin removed
         THEN listing[CHOOSE i \in 1..Len(listing) : ChildPath(i) = p].kind
         ELSE "none"

\* os.path.isfile / os.path.isdir / os.path.exists
isfile(p) == PathKind(p) = "file"
isdir(p) == PathKind(p) = "dir"
exists(p) == PathKind(p) # "none"

(***************************************************************************)
(* Initial states                                                          *)
(***************************************************************************)
EmptyFs == [p \in Paths |-> "none"]

\* a caller hands one string to OCRService.process_documents
InitDirect ==
    /\ caller = "direct"
    /\ input \in DirectInputs
    /\ \E k \in Kinds : fs = [EmptyFs EXCEPT ![input] = k]
    /\ listing \in Listings
    /\ (fs[input] # "dir" \/ is_url(input)) => listing = <<>>
    /\ dpc = "classify"
    /\ invocations = <<input>>
    /\ req = NoReq
    /\ hpc = "none"
    /\ argv = <<>>
    /\ mpc = "none"
    /\ out_file = NoFile

\* POST /ocr/process arrives
InitProcess ==
    /\ caller = "process"
    /\ input = <<>>
    /\ fs = EmptyFs
    /\ listing = <<>>
    /\ dpc = "idle"
    /\ invocations = <<>>
    /\ \E pt \in {"url", "file"}, u \in UrlPool \cup {<<>>},
          f \in UploadNames \cup {<<>>} :
          req = [endpoint |-> "process", process_type |-> pt, url |-> u,
                 file |-> f, urls |-> <<>>]
    /\ hpc = "deps"
    /\ argv = <<>>
    /\ mpc = "none"
    /\ out_file = NoFile

\* POST /ocr/batch arrives
InitBatch ==
    /\ caller = "batch"
    /\ input = <<>>
    /\ fs = EmptyFs
    /\ listing = <<>>
    /\ dpc = "idle"
    /\ invocations = <<>>
    /\ \E us \in UrlLists :
          req = [endpoint |-> "batch", process_type |-> "none", url |-> <<>>,
                 file |-> <<>>, urls |-> us]
    /\ hpc = "deps"
    /\ argv = <<>>
    /\ mpc = "none"
    /\ out_file = NoFile

\* `python main.py ...` starts; in cli mode the input may be on disk
InitMain ==
    /\ caller = "main"
    /\ argv \in MainArgvs
    /\ input = <<>>
    /\ \E p \in CliInputs, k \in Kinds :
          /\ create_cli_parser(argv).ns.input \in {<<>>, p}
          /\ create_cli_parser(argv).ns.mode # "cli" => (p = S_f_pdf /\ k = "none")
          /\ fs = [EmptyFs EXCEPT ![p] = k]
          /\ listing \in Listings
          /\ (k # "dir" \/ is_url(p)) => listing = <<>>
    /\ out_file \in {NoFile, OldFile}
    /\ create_cli_parser(argv).ns.mode # "cli" => out_file = NoFile
    /\ dpc = "idle"
    /\ invocations = <<>>
    /\ req = NoReq
    /\ hpc = "none"
    /\ mpc = "parse"

\* `python api/server.py ...` starts
InitServer ==
    /\ caller = "server"
    /\ argv \in ServerArgvs
    /\ input = <<>>
    /\ fs = EmptyFs
    /\ listing = <<>>
    /\ out_file = NoFile
    /\ dpc = "idle"
    /\ invocations = <<>>
    /\ req = NoReq
    /\ hpc = "none"
    /\ mpc = "server"

Init ==
    /\ (InitDirect \/ InitProcess \/ InitBatch \/ InitMain \/ InitServer)
    /\ args = Namespace
    /\ exit_code = -1
    /\ launched = <<>>
    /\ save_calls = 0
    /\ client_state = "none"
    /\ removed = {}
    /\ branch = "none"
    /\ files = <<>>
    /\ supported_files = <<>>
    /\ idx = 0
    /\ ocr_responses = <<>>
    /\ callLog = <<>>
    /\ callBase = 0
    /\ ret = NoRet
    /\ temp_file_path = <<>>
    /\ http = NoHttp
    /\ results = <<>>
    /\ failed_urls = <<>>
    /\ bidx = 0

(***************************************************************************)
(* ocr/ocr_service.py: OCRService.process_documents                        *)
(***************************************************************************)
\* the two except clauses of process_documents: what leaves the method
\* when exception e reaches them
DispatcherExceptWrapAll(e) ==
    OCRToolError(<<"Unexpected error processing documents: ">> \o StrOf(e))

DispatcherExceptNoWrap(e) == e

DispatcherExcept(e) ==
    IF IsInstance(e.cls, "OCRToolError") THEN e
    ELSE IF IsInstance(e.cls, "Exception")
         THEN OCRToolError(<<"Unexpected error processing documents: ">> \o StrOf(e))
         ELSE e

\* the if/elif chain of process_documents
ClassifyDirNeedsEntries(p) ==
    IF is_url(p) THEN "url"
    ELSE IF isfile(p) THEN "file"
    ELSE IF isdir(p) /\ listing # <<>> THEN "dir"
    ELSE "error"

ClassifyFsFirst(p) ==
    IF isfile(p) THEN "file"
    ELSE IF isdir(p) THEN "dir"
    ELSE IF is_url(p) THEN "url"
    ELSE "error"

ClassifyBranch(p) ==
    IF is_url(p) THEN "url"
    ELSE IF isfile(p) THEN "file"
    ELSE IF isdir(p) THEN "dir"
    ELSE "error"

\* one entry of callLog
LogEntry(ref, o) == [ref |-> ref, ok |-> o.ok, result |-> o.result,
                     exc |-> o.exc, raw |-> o.raw]

\* classification (lines 47-60)
ClassifyTouchesFs ==
    /\ dpc = "classify"
    /\ branch' = ClassifyBranch(input)
    /\ IF branch' = "error"
       THEN /\ ret' = Raise(DispatcherExcept(InvalidInputError(
                        <<"Invalid input path: <path>. Must be a file, directory, or URL.">>)))
            /\ dpc' = "done"
            /\ fs' = [fs EXCEPT ![input] = "dir"]
       ELSE /\ ret' = ret
            /\ dpc' = branch'
            /\ fs' = fs
    /\ UNCHANGED <<input, files, supported_files, idx, ocr_responses,
                   callLog, callBase, invocations>>
    /\ UNCHANGED hvars
    /\ UNCHANGED <<caller, listing, removed>>
    /\ UNCHANGED mvars

Classify ==
    /\ dpc = "classify"
    /\ branch' = ClassifyBranch(input)
    /\ IF branch' = "error"
       THEN /\ ret' = Raise(DispatcherExcept(InvalidInputError(
                        <<"Invalid input path: <path>. Must be a file, directory, or URL.">>)))
            /\ dpc' = "done"
       ELSE /\ ret' = ret
            /\ dpc' = branch'
    /\ UNCHANGED <<input, files, supported_files, idx, ocr_responses,
                   callLog, callBase, invocations>>
    /\ UNCHANGED hvars
    /\ UNCHANGED evars
    /\ UNCHANGED mvars

\* how process_documents ends in the URL and single-file branches: the
\* one-element list of _process_url / _process_file, or the exception of
\* the client through the except clauses
SingleResultSwallow(label, o) ==
    IF o.ok THEN Return(<<[file |-> label, response |-> o.result]>>)
    ELSE Return(<<>>)

SingleResultBasename(label, o) ==
    IF o.ok THEN Return(<<[file |-> Basename(label), response |-> o.result]>>)
    ELSE Raise(DispatcherExcept(o.exc))

SingleResult(label, o) ==
    IF o.ok THEN Return(<<[file |-> label, response |-> o.result]>>)
    ELSE Raise(DispatcherExcept(o.exc))

\* _process_url (lines 72-84) and the return / except of process_documents
ProcessUrl ==
    /\ dpc = "url"
    /\ \E fault \in Faults, r \in Results :
         LET o == process_document(input, isfile(input), fault, r)
         IN  /\ callLog' = Append(callLog, LogEntry(input, o))
             /\ ret' = SingleResult(input, o)
    /\ dpc' = "done"
    /\ UNCHANGED <<input, branch, files, supported_files, idx, ocr_responses,
                   callBase, invocations>>
    /\ UNCHANGED hvars
    /\ UNCHANGED evars
    /\ UNCHANGED mvars

\* _process_file (lines 86-98) and the return / except of process_documents
ProcessFile ==
    /\ dpc = "file"
    /\ \E fault \in Faults, r \in Results :
         LET o == process_document(input, isfile(input), fault, r)
         IN  /\ callLog' = Append(callLog, LogEntry(input, o))
             /\ ret' = SingleResult(input, o)
    /\ dpc' = "done"
    /\ UNCHANGED <<input, branch, files, supported_files, idx, ocr_responses,
                   callBase, invocations>>
    /\ UNCHANGED hvars
    /\ UNCHANGED evars
    /\ UNCHANGED mvars

RECURSIVE FilesOfNoIsfile(_)
\* the entries 1..n of the listing as joined paths, whatever their kind
FilesOfNoIsfile(n) ==
    IF n = 0 THEN <<>> ELSE Append(FilesOfNoIsfile(n - 1), ChildPath(n))

RECURSIVE FilesOf(_)
\* _get_files_in_directory: the entries 1..n of the listing that are
\* regular files now, as joined paths, in listing order
FilesOf(n) ==
    IF n = 0 THEN <<>>
    ELSE IF isfile(ChildPath(n))
         THEN Append(FilesOf(n - 1), ChildPath(n))
         ELSE FilesOf(n - 1)

\* _process_directory up to the loop (lines 110-121); os.listdir may raise
DirEnumerate ==
    /\ dpc = "dir"
    /\ \E listdirFails \in BOOLEAN :
         IF listdirFails
         THEN /\ ret' = Raise(DispatcherExcept(Exc("PermissionError",
                                 <<"[Errno 13] Permission denied: <path>">>)))
              /\ dpc' = "done"
              /\ UNCHANGED <<files, supported_files, idx>>
         ELSE /\ files' = FilesOf(Len(listing))
              /\ supported_files' = FilterSupported(files')
              /\ IF supported_files' = <<>>
                 THEN /\ ret' = Return(ocr_responses)
                      /\ dpc' = "done"
                      /\ idx' = idx
                 ELSE /\ ret' = ret
                      /\ dpc' = "dir_loop"
                      /\ idx' = 1
    /\ UNCHANGED <<input, branch, ocr_responses, callLog, callBase, invocations>>
    /\ UNCHANGED hvars
    /\ UNCHANGED evars
    /\ UNCHANGED mvars

\* the except clause of the directory loop (lines 132-135): TRUE when the
\* loop swallows e and continues
LoopCatchesNothing(e) == FALSE

\* a loop that continues past errors of the remote service only
LoopCatchesApiOnly(e) == IsInstance(e.cls, "APIError")

LoopCatches(e) == IsInstance(e.cls, "OCRToolError")

\* one iteration of the loop of _process_directory (lines 124-135), and
\* the return of line 137 after the last one
DirLoopStep ==
    /\ dpc = "dir_loop"
    /\ idx <= Len(supported_files)
    /\ \E fault \in Faults, r \in Results :
         LET file_path == supported_files[idx]
             o == process_document(file_path, isfile(file_path), fault, r)
             acc == IF o.ok
                    THEN Append(ocr_responses,
                                [file |-> Basename(file_path), response |-> o.result])
                    ELSE ocr_responses
         IN  /\ callLog' = Append(callLog, LogEntry(file_path, o))
             /\ ocr_responses' = acc
             /\ IF ~o.ok /\ ~LoopCatches(o.exc)
                THEN /\ ret' = Raise(DispatcherExcept(o.exc))
                     /\ dpc' = "done"
                     /\ idx' = idx
                ELSE IF idx = Len(supported_files)
                THEN /\ ret' = Return(acc)
                     /\ dpc' = "done"
                     /\ idx' = idx + 1
                ELSE /\ ret' = ret
                     /\ dpc' = dpc
                     /\ idx' = idx + 1
    /\ UNCHANGED <<input, branch, files, supported_files, callBase, invocations>>
    /\ UNCHANGED hvars
    /\ UNCHANGED evars
    /\ UNCHANGED mvars

(***************************************************************************)
(* Other processes acting on the filesystem                                *)
(***************************************************************************)
\* another process deletes a file of the directory after its enumeration
EnvDeleteChild ==
    /\ dpc = "dir_loop"
    /\ removed = {}
    /\ \E i \in idx..Len(supported_files) :
         removed' = {Basename(supported_files[i])}
    /\ UNCHANGED <<caller, fs, listing>>
    /\ UNCHANGED dvars
    /\ UNCHANGED hvars
    /\ UNCHANGED mvars

\* another process deletes the temporary copy of an upload
EnvDeleteTemp ==
    /\ temp_file_path # <<>>
    /\ dpc \in {"classify", "file"}
    /\ fs[temp_file_path] = "file"
    /\ fs' = [fs EXCEPT ![temp_file_path] = "none"]
    /\ UNCHANGED <<caller, listing, removed>>
    /\ UNCHANGED dvars
    /\ UNCHANGED hvars
    /\ UNCHANGED mvars

(***************************************************************************)
(* api/models.py: bounds of OCRBatchRequest.urls                           *)
(***************************************************************************)
min_items == 1
max_items == 10

(***************************************************************************)
(* api/app.py                                                              *)
(***************************************************************************)
\* a handler calls ocr_service.process_documents(s)
Invoke(s) ==
    /\ input' = s
    /\ dpc' = "classify"
    /\ branch' = "none"
    /\ files' = <<>>
    /\ supported_files' = <<>>
    /\ idx' = 0
    /\ ocr_responses' = <<>>
    /\ ret' = NoRet
    /\ callBase' = Len(callLog)
    /\ callLog' = callLog
    /\ invocations' = Append(invocations, s)

\* the response that HTTPException h produces; failed is the exception
\* the request failed with
ErrorResponse(h, e) ==
    [status |-> h.status, detail |-> h.msg, body |-> <<>>, failed |-> e]

OkResponse(b) == [status |-> 200, detail |-> <<>>, body |-> b, failed |-> NoExc]

\* get_ocr_service (lines 48-60): MistralClient() fails without an API key
GetOcrService ==
    /\ hpc = "deps"
    /\ \E keyPresent \in BOOLEAN :
         IF keyPresent
         THEN /\ hpc' = "handler"
              /\ http' = http
         ELSE LET e == ConfigurationError(<<"Mistral API key not found. ",
                          "Please set the MISTRAL_API_KEY environment variable.">>)
              IN  /\ hpc' = "responded"
                  /\ http' = ErrorResponse(HTTPException(500, StrOf(e)), e)
    /\ UNCHANGED <<req, temp_file_path, results, failed_urls, bidx>>
    /\ UNCHANGED dvars
    /\ UNCHANGED evars
    /\ UNCHANGED mvars

\* the except clauses of process_document (lines 147-158): the
\* HTTPException raised for exception e
HandlerExceptAll500(e) ==
    IF IsInstance(e.cls, "OCRToolError") THEN HTTPException(500, StrOf(e))
    ELSE HTTPException(500, <<"Unexpected error: ">> \o StrOf(e))

HandlerExcept(e) ==
    IF IsInstance(e.cls, "InvalidInputError") THEN HTTPException(400, StrOf(e))
    ELSE IF IsInstance(e.cls, "APIError") THEN HTTPException(500, StrOf(e))
    ELSE IF IsInstance(e.cls, "OCRToolError") THEN HTTPException(500, StrOf(e))
    ELSE IF IsInstance(e.cls, "Exception")
         THEN HTTPException(500, <<"Unexpected error: ">> \o StrOf(e))
         ELSE e

\* an exception raised inside the try block of process_document ends the
\* request with the response of the except clauses
FailWith(e) ==
    /\ http' = ErrorResponse(HandlerExcept(e), e)
    /\ hpc' = "responded"

\* process_document from its first line to the call of the dispatcher
\* (lines 94-112 for a URL, lines 94-133 for an upload)
ProcessBody ==
    /\ hpc = "handler"
    /\ req.endpoint = "process"
    /\ IF req.process_type = "url" /\ req.url = <<>>
       THEN /\ FailWith(HTTPException(400, <<"URL is required for URL processing">>))
            /\ UNCHANGED <<temp_file_path, fs>>
            /\ UNCHANGED dvars
       ELSE IF req.process_type = "file" /\ req.file = <<>>
       THEN /\ FailWith(HTTPException(400, <<"File is required for file processing">>))
            /\ UNCHANGED <<temp_file_path, fs>>
            /\ UNCHANGED dvars
       ELSE IF req.process_type = "url"
       THEN /\ Invoke(req.url)
            /\ hpc' = "url_wait"
            /\ UNCHANGED <<http, temp_file_path, fs>>
       ELSE \* NamedTemporaryFile(delete=False) creates the file; reading the
            \* upload or writing it may raise before the try/finally begins
            /\ temp_file_path' = TempName(Suffix(req.file))
            /\ fs' = [fs EXCEPT ![temp_file_path'] = "file"]
            /\ \E ioFails \in BOOLEAN :
                 IF ioFails
                 THEN /\ FailWith(Exc("RuntimeError", <<"upload read failed">>))
                      /\ UNCHANGED dvars
                 ELSE /\ Invoke(temp_file_path')
                      /\ hpc' = "file_wait"
                      /\ http' = http
    /\ UNCHANGED <<req, results, failed_urls, bidx>>
    /\ UNCHANGED <<caller, listing, removed>>
    /\ UNCHANGED mvars

\* what follows the return of the dispatcher inside the try block
\* (lines 114-120, 135-141)
AfterDispatch(emptyDetail) ==
    IF ret.kind = "raise"
    THEN FailWith(ret.exc)
    ELSE IF ret.value = <<>>
    THEN FailWith(HTTPException(500, emptyDetail))
    ELSE /\ http' = OkResponse(<<ret.value[1]>>)
         /\ hpc' = "responded"

\* process_document, URL mode, after the dispatcher (lines 114-120)
ProcessUrlFinish ==
    /\ hpc = "url_wait"
    /\ dpc = "done"
    /\ AfterDispatch(<<"Failed to process URL">>)
    /\ dpc' = "idle"
    /\ UNCHANGED <<input, branch, files, supported_files, idx, ocr_responses,
                   callLog, callBase, ret, invocations>>
    /\ UNCHANGED <<req, temp_file_path, results, failed_urls, bidx>>
    /\ UNCHANGED evars
    /\ UNCHANGED mvars

\* the finally clause (lines 142-145)
FinallyNoUnlink(f) == f

Finally(f) ==
    IF exists(temp_file_path) THEN [f EXCEPT ![temp_file_path] = "none"] ELSE f

\* process_document, upload mode, after the dispatcher (lines 135-145)
ProcessFileFinish ==
    /\ hpc = "file_wait"
    /\ dpc = "done"
    /\ AfterDispatch(<<"Failed to process file">>)
    /\ fs' = Finally(fs)
    /\ dpc' = "idle"
    /\ UNCHANGED <<input, branch, files, supported_files, idx, ocr_responses,
                   callLog, callBase, ret, invocations>>
    /\ UNCHANGED <<req, temp_file_path, results, failed_urls, bidx>>
    /\ UNCHANGED <<caller, listing, removed>>
    /\ UNCHANGED mvars

\* OCRBatchRequest validation (min_items, max_items): a list of the wrong
\* length is rejected before process_batch runs
BatchValidate ==
    /\ hpc = "handler"
    /\ req.endpoint = "batch"
    /\ IF Len(req.urls) < min_items \/ Len(req.urls) > max_items
       THEN /\ http' = [status |-> 422, detail |-> <<"validation error">>,
                        body |-> <<>>,
                        failed |-> Exc("ValidationError", <<"validation error">>)]
            /\ hpc' = "responded"
       ELSE /\ http' = http
            /\ hpc' = "loop"
    /\ UNCHANGED <<req, temp_file_path, results, failed_urls, bidx>>
    /\ UNCHANGED dvars
    /\ UNCHANGED evars
    /\ UNCHANGED mvars

\* process_batch: the loop reaches the next URL and calls the dispatcher
\* (lines 181-184)
BatchNext ==
    /\ hpc = "loop"
    /\ dpc = "idle"
    /\ bidx < Len(req.urls)
    /\ Invoke(req.urls[bidx + 1])
    /\ hpc' = "batch_wait"
    /\ UNCHANGED <<req, temp_file_path, http, results, failed_urls, bidx>>
    /\ UNCHANGED evars
    /\ UNCHANGED mvars

\* results after the iteration for one URL (lines 186-187)
BatchResultsPrepend(res, r) ==
    IF r.kind = "return" /\ r.value # <<>> THEN <<r.value[1]>> \o res ELSE res

BatchResults(res, r) ==
    IF r.kind = "return" /\ r.value # <<>> THEN Append(res, r.value[1]) ELSE res

\* failed_urls after the iteration for one URL (lines 188-193)
BatchFailedUrlsDropRaise(failed, url, r) ==
    IF r.kind = "return" /\ r.value = <<>> THEN Append(failed, url) ELSE failed

BatchFailedUrls(failed, url, r) ==
    IF r.kind = "return" /\ r.value # <<>> THEN failed ELSE Append(failed, url)

\* process_batch: the rest of the iteration (lines 186-193), and the
\* response (lines 195-198) after the last one
BatchCollect ==
    /\ hpc = "batch_wait"
    /\ dpc = "done"
    /\ LET url == req.urls[bidx + 1]
           res == BatchResults(results, ret)
           bad == BatchFailedUrls(failed_urls, url, ret)
       IN  /\ results' = res
           /\ failed_urls' = bad
           /\ bidx' = bidx + 1
           /\ IF bidx' = Len(req.urls)
              THEN /\ http' = OkResponse(<<res, bad>>)
                   /\ hpc' = "responded"
              ELSE /\ http' = http
                   /\ hpc' = "loop"
    /\ dpc' = "idle"
    /\ UNCHANGED <<input, branch, files, supported_files, idx, ocr_responses,
                   callLog, callBase, ret, invocations>>
    /\ UNCHANGED <<req, temp_file_path>>
    /\ UNCHANGED evars
    /\ UNCHANGED mvars

(***************************************************************************)
(* main.py and api/server.py                                               *)
(***************************************************************************)
\* sys.exit(code), or an exception that nothing catches
Exit(code) ==
    /\ mpc' = "exited"
    /\ exit_code' = code

\* argparse's parser.error(): SystemExit with status 2
SystemExit(code) == [cls |-> "SystemExit", msg |-> <<>>, status |-> code]

\* main.py parse_arguments (lines 116-131) and the mode test of main
MainParse ==
    /\ mpc = "parse"
    /\ LET r == create_cli_parser(argv)
       IN  IF ~r.ok
           THEN Exit(SystemExit(2).status) /\ args' = args
           ELSE IF r.ns.mode = "none"
           THEN Exit(1) /\ args' = args
           ELSE /\ args' = r.ns
                /\ mpc' = r.ns.mode
                /\ exit_code' = exit_code
    /\ UNCHANGED <<argv, launched, out_file, save_calls, client_state>>
    /\ UNCHANGED dvars
    /\ UNCHANGED hvars
    /\ UNCHANGED evars

\* run_cli_mode up to the dispatcher call (lines 202-206, 165-172):
\* MistralClient() raises ConfigurationError without an API key, which the
\* except clause of run_cli_mode turns into status 1
RunCliMode ==
    /\ mpc = "cli"
    /\ \E keyPresent \in BOOLEAN :
         IF keyPresent
         THEN /\ client_state' = "ok"
              /\ Invoke(args.input)
              /\ mpc' = "cli_wait"
              /\ exit_code' = exit_code
         ELSE /\ client_state' = "raise"
              /\ Exit(1)
              /\ UNCHANGED dvars
    /\ UNCHANGED <<argv, args, launched, out_file, save_calls>>
    /\ UNCHANGED hvars
    /\ UNCHANGED evars

\* persistence even when the dispatcher raised
RunCliFinishSavesAnyway ==
    /\ mpc = "cli_wait"
    /\ dpc = "done"
    /\ \E fault \in SaveFaults :
         LET r == save_output(ret.value, fault, out_file)
         IN  /\ save_calls' = save_calls + 1
             /\ out_file' = r.file
             /\ Exit(IF r.exc = NoExc /\ ret.kind = "return" THEN 0 ELSE 1)
    /\ UNCHANGED <<argv, args, launched, client_state>>
    /\ UNCHANGED dvars
    /\ UNCHANGED hvars
    /\ UNCHANGED evars

\* an empty result treated as a failure
RunCliFinishEmptyIsFailure ==
    /\ mpc = "cli_wait"
    /\ dpc = "done"
    /\ IF ret.kind = "raise" \/ ret.value = <<>>
       THEN /\ Exit(1)
            /\ UNCHANGED <<out_file, save_calls>>
       ELSE \E fault \in SaveFaults :
              LET r == save_output(ret.value, fault, out_file)
              IN  /\ save_calls' = save_calls + 1
                  /\ out_file' = r.file
                  /\ Exit(IF r.exc = NoExc THEN 0 ELSE 1)
    /\ UNCHANGED <<argv, args, launched, client_state>>
    /\ UNCHANGED dvars
    /\ UNCHANGED hvars
    /\ UNCHANGED evars

\* run_cli_mode after the dispatcher has ended (lines 206-219): an
\* exception of the dispatcher goes to the except clauses; a return value
\* goes to save_results, whose FileError goes to the except clauses too
RunCliFinish ==
    /\ mpc = "cli_wait"
    /\ dpc = "done"
    /\ IF ret.kind = "raise"
       THEN /\ Exit(1)
            /\ UNCHANGED <<out_file, save_calls>>
       ELSE \E fault \in SaveFaults :
              LET r == save_output(ret.value, fault, out_file)
              IN  /\ save_calls' = save_calls + 1
                  /\ out_file' = r.file
                  /\ Exit(IF r.exc = NoExc THEN 0 ELSE 1)
    /\ UNCHANGED <<argv, args, launched, client_state>>
    /\ UNCHANGED dvars
    /\ UNCHANGED hvars
    /\ UNCHANGED evars

\* run_api_mode (lines 233-245) up to the call of server.main: the import
\* of api.server fails when the API dependencies are missing
RunApiMode ==
    /\ mpc = "api"
    /\ \E importOk \in BOOLEAN :
         IF importOk
         THEN mpc' = "server" /\ exit_code' = exit_code
         ELSE Exit(1)
    /\ UNCHANGED <<argv, args, launched, out_file, save_calls, client_state>>
    /\ UNCHANGED dvars
    /\ UNCHANGED hvars
    /\ UNCHANGED evars

\* the status with which the process ends when server.main ended with
\* outcome o inside the try block of run_api_mode (lines 233-245)
RunApiExcept(o) ==
    IF o.kind = "return" THEN o.value
    ELSE IF IsInstance(o.exc.cls, "ImportError") THEN 1
    ELSE IF IsInstance(o.exc.cls, "Exception") THEN 1
    ELSE o.exc.status

\* the keyword arguments of uvicorn.run (server.py lines 90-97)
UvicornCall(ns) ==
    [app |-> Val.app, host |-> ns.host, port |-> ns.port, reload |-> ns.reload,
     workers |-> ns.workers, log_level |-> Lower(ns.log_level)]

\* api/server.py main (lines 70-103): parse_arguments reads sys.argv
\* again; uvicorn.run returns when the server stops, or raises
ServerMain ==
    /\ mpc = "server"
    /\ LET r == ServerParse(argv)
       IN  IF ~r.ok
           THEN /\ Exit(RunApiExcept(Raise(SystemExit(2))))
                /\ launched' = launched
           ELSE \E runRaises \in BOOLEAN :
                  /\ launched' = Append(launched, UvicornCall(r.ns))
                  /\ Exit(RunApiExcept(Return(IF runRaises THEN 1 ELSE 0)))
    /\ UNCHANGED <<argv, args, out_file, save_calls, client_state>>
    /\ UNCHANGED dvars
    /\ UNCHANGED hvars
    /\ UNCHANGED evars

(***************************************************************************)
(* Specification                                                           *)
(***************************************************************************)
Next ==
    \/ Classify
    \/ ProcessUrl
    \/ ProcessFile
    \/ DirEnumerate
    \/ DirLoopStep
    \/ EnvDeleteChild
    \/ EnvDeleteTemp
    \/ GetOcrService
    \/ ProcessBody
    \/ ProcessUrlFinish
    \/ ProcessFileFinish
    \/ BatchValidate
    \/ BatchNext
    \/ BatchCollect
    \/ MainParse
    \/ RunCliMode
    \/ RunCliFinish
    \/ RunApiMode
    \/ ServerMain

Spec == Init /\ [][Next]_vars

(***************************************************************************)
(* Properties                                                              *)
(***************************************************************************)
\* the client calls made by the running (or last) process_documents
Calls == SubSeq(callLog, callBase + 1, Len(callLog))

\* the string begins with http:// or https://
HasUrlPrefix(p) ==
    \/ (Len(p) >= 7 /\ SubSeq(p, 1, 7) = <<"h","t","t","p",":","/","/">>)
    \/ (Len(p) >= 8 /\ SubSeq(p, 1, 8) = <<"h","t","t","p","s",":","/","/">>)

\* the lowercased name ends with one of the supported extensions
NameSupported(n) ==
    \E i \in 1..Len(SUPPORTED_EXTENSIONS) :
        LET x == SUPPORTED_EXTENSIONS[i]
            l == Lower(n)
        IN  Len(l) >= Len(x) /\ \A k \in 1..Len(x) : l[Len(l) - Len(x) + k] = x[k]

\* positions of the listing that hold a regular file with a supported name
SupportedEntries ==
    { i \in 1..Len(listing) :
        listing[i].kind = "file" /\ NameSupported(listing[i].name) }

\* C1: whenever process_documents classifies its input, an input that
\* starts with http:// or https:// takes the URL branch whatever the disk
\* holds under that name; otherwise an existing file takes the file branch,
\* otherwise an existing directory the directory branch, otherwise the
\* input is an error (URL, then file, then directory, then error).
C1_UrlBeforeFilesystem ==
    [][ (dpc = "classify" /\ dpc' # "classify") =>
          /\ HasUrlPrefix(input) => (branch' = "url" /\ dpc' = "url")
          /\ (~HasUrlPrefix(input) /\ fs[input] = "file") => branch' = "file"
          /\ (~HasUrlPrefix(input) /\ fs[input] = "dir") => branch' = "dir"
          /\ (~HasUrlPrefix(input) /\ fs[input] = "none") => branch' = "error"
      ]_vars

\* C1 witness: a URL-prefixed input took the URL branch although a file or
\* directory of that name exists
C1_Witness ==
    /\ branch = "url"
    /\ HasUrlPrefix(input)
    /\ fs[input] \in {"file", "dir"}

\* C2: when the directory branch returns, the number of records equals the
\* number of direct child regular files with a supported lowercased name
\* minus the number of those whose client call failed, and no file whose
\* call failed has a record.
C2_DirectorySuccessCount ==
    (branch = "dir" /\ dpc = "done" /\ ret.kind = "return") =>
        LET failed == { i \in 1..Len(Calls) : ~Calls[i].ok }
        IN  /\ Len(ret.value) = Cardinality(SupportedEntries) - Cardinality(failed)
            /\ \A i \in failed : \A j \in 1..Len(ret.value) :
                   ret.value[j].file # Basename(Calls[i].ref)

\* C2 witness: a directory of three entries returned with a success and a
\* failure, one supported name being in upper case
C2_Witness ==
    /\ branch = "dir" /\ dpc = "done" /\ ret.kind = "return"
    /\ Len(listing) = 3
    /\ Len(ret.value) = 1
    /\ \E i \in 1..Len(Calls) : ~Calls[i].ok
    /\ \E i \in 1..Len(listing) : listing[i].name = N_c_PNG

\* an exception class outside the OCRToolError family
NonTool(cls) == cls # "None" /\ ~IsInstance(cls, "OCRToolError")

\* C3: in the directory branch, a file whose processing hit an unexpected
\* (non-tool) error does not end the run: every supported file is still
\* submitted, process_documents returns, and the returned records are
\* exactly those of the files whose call succeeded.
C3_UnexpectedErrorIsolated ==
    (branch = "dir" /\ dpc = "done" /\ \E i \in 1..Len(Calls) : NonTool(Calls[i].raw)) =>
        /\ ret.kind = "return"
        /\ Len(Calls) = Len(supported_files)
        /\ \A i \in 1..Len(Calls) :
             Calls[i].ok <=>
               \E j \in 1..Len(ret.value) :
                   ret.value[j] = [file |-> Basename(Calls[i].ref),
                                   response |-> Calls[i].result]
        /\ Len(ret.value) = Cardinality({ i \in 1..Len(Calls) : Calls[i].ok })

\* C3 witness: the first file hit an unexpected error of the remote call and
\* the second file was processed and returned
C3_Witness ==
    /\ branch = "dir" /\ dpc = "done"
    /\ Len(Calls) = 2
    /\ Calls[1].raw = "RuntimeError"
    /\ Calls[2].ok
    /\ ret.kind = "return" /\ Len(ret.value) = 1

\* the references of a sequence of logged calls
Refs(cs) == [i \in 1..Len(cs) |-> cs[i].ref]

\* C4: a failed item never aborts the remaining ones.  In the directory
\* loop the files submitted so far are exactly the supported files before
\* the loop position, each once, and the run ends by returning; in
\* process_batch the URLs submitted so far are exactly the URLs up to the
\* loop position, each once, and the request ends with the 200 response.
C4_FailuresDoNotAbort ==
    /\ (branch = "dir" /\ dpc = "dir_loop") =>
          Refs(Calls) = SubSeq(supported_files, 1, idx - 1)
    /\ (branch = "dir" /\ dpc = "done" /\ supported_files # <<>>) =>
          (Refs(Calls) = supported_files /\ ret.kind = "return")
    /\ (caller = "batch" /\ hpc \in {"loop", "batch_wait"}) =>
          /\ Len(callLog) \in {bidx, bidx + 1}
          /\ Refs(callLog) = SubSeq(req.urls, 1, Len(callLog))
    /\ (caller = "batch" /\ hpc = "responded" /\ bidx > 0) =>
          (Refs(callLog) = req.urls /\ http.status = 200)

\* C4 witness: a batch of three URLs whose first call failed was answered
\* after the two other URLs were submitted, the second one with success
C4_Witness ==
    /\ caller = "batch" /\ hpc = "responded"
    /\ Len(req.urls) = 3
    /\ Len(callLog) = 3
    /\ ~callLog[1].ok
    /\ callLog[2].ok

\* number of positions of sequence q that hold x
Count(q, x) == Cardinality({ i \in 1..Len(q) : q[i] = x })

\* the labels of a sequence of records
Labels(rs) == [i \in 1..Len(rs) |-> rs[i].file]

\* the batch request has been answered by process_batch
BatchAnswered == caller = "batch" /\ hpc = "responded" /\ http.status = 200

\* C5 as stated: in the response of POST /ocr/batch the two lists together
\* are as long as the input, and every input URL is in exactly one of them,
\* also when a URL occurs more than once in the request.
C5_Original ==
    BatchAnswered =>
        /\ Len(results) + Len(failed_urls) = Len(req.urls)
        /\ \A i \in 1..Len(req.urls) :
             LET u == req.urls[i]
                 inResults == \E j \in 1..Len(results) : results[j].file = u
                 inFailed == \E j \in 1..Len(failed_urls) : failed_urls[j] = u
             IN  (inResults /\ ~inFailed) \/ (~inResults /\ inFailed)

\* C5 amended: the two lists together are as long as the input, and for
\* every URL the number of results labelled with it plus the number of its
\* entries in failed_urls equals the number of times the request holds it;
\* so a URL that occurs once is in exactly one list.
C5_EveryOccurrenceAccounted ==
    BatchAnswered =>
        /\ Len(results) + Len(failed_urls) = Len(req.urls)
        /\ \A u \in UrlPool :
             Count(Labels(results), u) + Count(failed_urls, u) = Count(req.urls, u)
        /\ \A u \in UrlPool :
             Count(req.urls, u) = 1 =>
                (Count(Labels(results), u) = 1) # (Count(failed_urls, u) = 1)

\* C5 witness: a request that holds one URL twice was answered with that
\* URL both among the results and among the failed URLs
C5_Witness ==
    /\ BatchAnswered
    /\ \E u \in UrlPool :
         /\ Count(req.urls, u) = 2
         /\ Count(Labels(results), u) = 1
         /\ Count(failed_urls, u) = 1

\* C6 as stated: for an upload the temporary copy is made before the
\* dispatcher is called, and once the request is answered the copy no
\* longer exists, whatever happened after its creation.
C6_TempFileAlwaysRemoved ==
    /\ (caller = "process" /\ req.process_type = "file" /\ invocations # <<>>) =>
          (temp_file_path # <<>> /\ invocations = <<temp_file_path>>)
    /\ (caller = "process" /\ hpc = "responded" /\ temp_file_path # <<>>) =>
          fs[temp_file_path] = "none"

\* the request lacks what its declared mode requires
MissingRequired ==
    \/ (req.process_type = "url" /\ req.url = <<>>)
    \/ (req.process_type = "file" /\ req.file = <<>>)

\* C7 as stated: a request of POST /ocr/process that declares URL mode
\* without a url, or file mode without a file, is answered with status 400
\* and the dispatcher is never called for it (given that the service could
\* be constructed).
C7_MissingRequiredIs400 ==
    (caller = "process" /\ hpc = "responded" /\ MissingRequired
       /\ http.failed.cls # "ConfigurationError") =>
        (http.status = 400 /\ invocations = <<>>)

\* the request failed with an exception other than the handler's own
\* rejection of a request that lacks its url or file
FailedRequest ==
    /\ caller = "process" /\ hpc = "responded"
    /\ http.failed.cls # "None"
    /\ ~(http.failed.cls = "HTTPException" /\ http.failed.status = 400)

\* C8: a failed request of POST /ocr/process is answered with status 400
\* when it failed with InvalidInputError and with status 500 when it failed
\* with anything else, and the response detail carries the message of the
\* failure.
C8_StatusMapping ==
    FailedRequest =>
        /\ http.status = (IF http.failed.cls = "InvalidInputError" THEN 400 ELSE 500)
        /\ \/ http.detail = StrOf(http.failed)
           \/ http.detail = <<"Unexpected error: ">> \o StrOf(http.failed)

\* C8 witness: an upload whose temporary copy vanished before the
\* classification was answered with status 400
C8_Witness ==
    /\ FailedRequest
    /\ http.failed.cls = "InvalidInputError"
    /\ http.status = 400

\* C9: process_documents ends with InvalidInputError exactly in the step
\* that classifies an input which has no URL prefix and names neither a
\* file nor a directory; that step makes no client call and returns no
\* record.
C9_InvalidInputExactly ==
    [][ LET raised == /\ ret' # ret
                      /\ ret'.kind = "raise"
                      /\ ret'.exc.cls = "InvalidInputError"
        IN  /\ raised <=> /\ dpc = "classify" /\ dpc' # "classify"
                          /\ ~HasUrlPrefix(input)
                          /\ fs[input] = "none"
            /\ raised => /\ callLog' = callLog
                         /\ Len(callLog') = callBase'
                         /\ ret'.value = <<>>
      ]_vars

\* C9 witness: process_documents ended with InvalidInputError for a path
\* that does not exist, without any client call
C9_Witness ==
    /\ dpc = "done"
    /\ ret.kind = "raise" /\ ret.exc.cls = "InvalidInputError"
    /\ fs[input] = "none"
    /\ Calls = <<>>

\* C10: in the URL branch and in the single-file branch the client is
\* called exactly once, with the input, and when that call fails
\* process_documents ends with the very exception of the call and returns
\* no sequence.
C10_SingleItemFailurePropagates ==
    (branch \in {"url", "file"} /\ dpc = "done") =>
        /\ Len(Calls) = 1
        /\ Calls[1].ref = input
        /\ ~Calls[1].ok => ret = Raise(Calls[1].exc)

\* C10 witness: the single call of a file input failed and process_documents
\* ended with its exception
C10_Witness ==
    /\ branch = "file" /\ dpc = "done"
    /\ Len(Calls) = 1 /\ ~Calls[1].ok
    /\ ret.kind = "raise"

\* C11: in the URL branch and in the single-file branch, when the one
\* client call succeeds, process_documents returns exactly one record whose
\* label is the input string as given (not its basename) and whose result
\* is the value that the client call returned.
C11_SingleItemSuccessRecord ==
    (branch \in {"url", "file"} /\ dpc = "done" /\ Len(Calls) >= 1 /\ Calls[1].ok) =>
        /\ Len(Calls) = 1
        /\ ret.kind = "return"
        /\ Len(ret.value) = 1
        /\ ret.value[1].file = input
        /\ ret.value[1].response = Calls[1].result

\* C11 witness: a file given with its directory part was processed and the
\* record carries the whole path
C11_Witness ==
    /\ branch = "file" /\ dpc = "done"
    /\ Len(Calls) = 1 /\ Calls[1].ok
    /\ ret.kind = "return"
    /\ ret.value[1].file = S_f_pdf
    /\ Basename(input) # input

\* the name of a listing entry that is a regular file with a supported name
SupportedFileName(n) ==
    \E i \in SupportedEntries : listing[i].name = n

\* C12: in the directory branch every submitted reference is the direct
\* child path of a regular file of the listing with a supported lowercased
\* name, so an entry with another extension or of another kind is never
\* submitted and has no record; every record is labelled with the bare name
\* of its file.  A listing a.pdf, b.txt, c.PNG whose calls succeed returns
\* exactly the records a.pdf and c.PNG.
C12_OnlySupportedFilesByBasename ==
    (branch = "dir") =>
        /\ \A i \in 1..Len(Calls) :
             /\ SupportedFileName(Basename(Calls[i].ref))
             /\ Calls[i].ref = Join(input, Basename(Calls[i].ref))
        /\ \A j \in 1..Len(ocr_responses) :
             /\ SupportedFileName(ocr_responses[j].file)
             /\ \A k \in 1..Len(ocr_responses[j].file) : ocr_responses[j].file[k] # "/"
        /\ (/\ dpc = "done" /\ ret.kind = "return"
            /\ [i \in 1..Len(listing) |-> listing[i].name] = <<N_a_pdf, N_b_txt, N_c_PNG>>
            /\ \A i \in 1..Len(Calls) : Calls[i].ok)
           => Labels(ret.value) = <<N_a_pdf, N_c_PNG>>

\* C12 witness: the directory a.pdf, b.txt, c.PNG, with a subdirectory
\* never in question, returned the two records a.pdf and c.PNG after
\* exactly two client calls
C12_Witness ==
    /\ branch = "dir" /\ dpc = "done" /\ ret.kind = "return"
    /\ [i \in 1..Len(listing) |-> listing[i].name] = <<N_a_pdf, N_b_txt, N_c_PNG>>
    /\ Len(Calls) = 2
    /\ Labels(ret.value) = <<N_a_pdf, N_c_PNG>>

\* process_documents ended with the generic wrapper of an exception that
\* os.listdir raised
ListdirRaised ==
    /\ branch = "dir" /\ dpc = "done"
    /\ ret.kind = "raise" /\ ret.exc.cls = "OCRToolError"
    /\ supported_files = <<>>

Decision ==
    [u \in BOOLEAN, k \in Kinds |->
        IF u THEN "url"
        ELSE IF k = "file" THEN "file"
        ELSE IF k = "dir" THEN "dir"
        ELSE "error"]

\* C17: the classification step decides as a function of the input string
\* and the state of the disk alone, so the same string against the same disk
\* gets the same branch, and the step changes neither the disk nor the state
\* of the service (no client call, no record, same input).
C17_ClassificationPure ==
    [][ (dpc = "classify" /\ dpc' # "classify") =>
          /\ branch' = Decision[HasUrlPrefix(input), fs[input]]
          /\ fs' = fs /\ listing' = listing /\ removed' = removed
          /\ callLog' = callLog /\ ocr_responses' = ocr_responses
          /\ input' = input /\ invocations' = invocations
      ]_vars

\* C17 witness: in one batch the same URL has been classified twice, both
\* times into the URL branch
C17_Witness ==
    /\ caller = "batch"
    /\ Len(invocations) = 2
    /\ invocations[1] = invocations[2]
    /\ Len(callLog) = 1
    /\ branch = "url"

\* C19: whatever exception leaves process_documents is an OCRToolError or a
\* subclass: a tool error of the client or of the classification leaves
\* unchanged, with its class, and an exception of another class (os.listdir
\* failing) leaves as a plain OCRToolError that carries its message.
C19_OneExceptionFamily ==
    (dpc = "done" /\ ret.kind = "raise") =>
        /\ IsInstance(ret.exc.cls, "OCRToolError")
        /\ ret.value = <<>>
        /\ branch = "error" => ret.exc.cls = "InvalidInputError"
        /\ (branch \in {"url", "file"}) =>
              (Calls # <<>> /\ ret.exc = Calls[Len(Calls)].exc)
        /\ branch = "dir" =>
              /\ ret.exc.cls = "OCRToolError"
              /\ ret.exc.msg[1] = "Unexpected error processing documents: "
              /\ Len(ret.exc.msg) > 1

\* C19 witness: os.listdir raised PermissionError and process_documents
\* ended with the plain OCRToolError
C19_Witness ==
    /\ branch = "dir" /\ dpc = "done"
    /\ ret.kind = "raise"
    /\ ret.exc.cls = "OCRToolError"
    /\ ret.exc.msg[2] = "[Errno 13] Permission denied: <path>"

RECURSIVE Restrict(_, _)
\* the subsequence of q made of its elements that are in set S
Restrict(q, S) ==
    IF q = <<>> THEN <<>>
    ELSE IF Head(q) \in S THEN <<Head(q)>> \o Restrict(Tail(q), S)
    ELSE Restrict(Tail(q), S)

RECURSIVE Pick(_, _, _)
\* the subsequence of q made of the positions 1..n that are in set I
Pick(q, n, I) ==
    IF n = 0 THEN <<>>
    ELSE IF n \in I THEN Append(Pick(q, n - 1, I), q[n])
    ELSE Pick(q, n - 1, I)

\* C20: the records of the directory branch are those of the files whose
\* call succeeded, in the order of the listing, no file twice; in
\* process_batch the results are those of the URLs whose call succeeded, in
\* the order of the request, and failed_urls the other URLs, in that order.
C20_OrderPreserved ==
    /\ (branch = "dir") =>
          LET names == [i \in 1..Len(listing) |-> listing[i].name]
              okNames == { Basename(Calls[i].ref) : i \in { j \in 1..Len(Calls) : Calls[j].ok } }
          IN  /\ Labels(ocr_responses) = Restrict(names, okNames)
              /\ \A i, j \in 1..Len(ocr_responses) :
                    i # j => ocr_responses[i].file # ocr_responses[j].file
              /\ (dpc = "done" /\ ret.kind = "return") => ret.value = ocr_responses
    /\ (caller = "batch" /\ hpc \in {"loop", "batch_wait", "responded"} /\ bidx <= Len(callLog)) =>
          LET ok == { i \in 1..bidx : callLog[i].ok }
          IN  /\ Labels(results) = Pick(req.urls, bidx, ok)
              /\ failed_urls = Pick(req.urls, bidx, (1..bidx) \ ok)

\* C20 witness: of three URLs the first and the third, which differ,
\* succeeded and the second failed; the results are the first then the third
C20_Witness ==
    /\ caller = "batch" /\ hpc = "responded"
    /\ Len(req.urls) = 3
    /\ req.urls[1] # req.urls[3]
    /\ Labels(results) = <<req.urls[1], req.urls[3]>>
    /\ failed_urls = <<req.urls[2]>>

\* main.py ran, selected mode m and the process has ended
Ended(m) == caller = "main" /\ args.mode = m /\ mpc = "exited"

\* C14: once main.py has selected a mode, the process ends with status 0
\* or 1 and no other: 1 when client construction, the dispatcher or
\* persistence failed, and 0 in cli mode only after all three succeeded.
C14_ExitZeroOrOne ==
    (caller = "main" /\ mpc = "exited" /\ args.mode # "none") =>
        /\ exit_code \in {0, 1}
        /\ (client_state = "raise" \/ ret.kind = "raise") => exit_code = 1
        /\ (args.mode = "cli" /\ exit_code = 0) =>
              (client_state = "ok" /\ ret.kind = "return" /\ save_calls = 1)

\* C15: in api mode of main.py, whatever combination of --host, --port,
\* --reload, --workers and --log-level was given, the step of server.main
\* calls uvicorn.run once, with the values main.py parsed from those flags.
C15_ApiModeLaunches ==
    [][ (caller = "main" /\ args.mode = "api" /\ mpc = "server" /\ mpc' = "exited") =>
            launched' = <<UvicornCall(args)>>
      ]_vars

Get(d, key) == d.v[CHOOSE i \in 1..Len(d.v) : d.v[i].k = key].v

\* C18: after save_output succeeded, reading the written text back as JSON
\* gives an array with one record per outcome, in the same order, whose
\* "file" is the outcome's label and whose "response" equals the
\* model_dump() of the outcome's result.
C18_SaveLoadRoundTrip ==
    (Ended("cli") /\ exit_code = 0) =>
        LET r == JsonLoad(out_file.text)
        IN  /\ out_file.exists
            /\ r.ok
            /\ r.val.t = "list"
            /\ Len(r.val.v) = Len(ret.value)
            /\ \A i \in 1..Len(ret.value) :
                  /\ r.val.v[i].t = "dict"
                  /\ Len(r.val.v[i].v) = 2
                  /\ Get(r.val.v[i], Key.file) = JStr(ret.value[i].file)
                  /\ Get(r.val.v[i], Key.response) = ModelDump(ret.value[i].response)

\* C18 witness: two outcomes with different results, one of which holds a
\* quote, a backslash and a line break, were saved over an older file
C18_Witness ==
    /\ Ended("cli") /\ exit_code = 0
    /\ Len(ret.value) = 2
    /\ ret.value[1].response = "r1"
    /\ ret.value[2].response = "r2"
    /\ out_file # OldFile
    /\ Len(out_file.text) > 0

\* the calls of the running directory loop on a file that another process
\* has deleted since the enumeration, or has made unreadable
LostCalls ==
    { i \in 1..Len(Calls) :
        \/ Basename(Calls[i].ref) \in removed
        \/ Calls[i].raw = "PermissionError" }

\* C21: in the directory branch, a file that another process deleted after
\* the enumeration, or made unreadable, fails its own call with FileError
\* and gets no record; the files after it are still submitted, and
\* process_documents ends by returning the records of the other files.
C21_LostFileIsPerFileFailure ==
    (branch = "dir" /\ dpc \in {"dir_loop", "done"}) =>
        /\ \A i \in LostCalls :
              /\ ~Calls[i].ok
              /\ Calls[i].exc.cls = "FileError"
              /\ \A j \in 1..Len(ocr_responses) :
                    ocr_responses[j].file # Basename(Calls[i].ref)
        /\ (LostCalls # {} /\ dpc = "dir_loop") =>
              (Refs(Calls) = SubSeq(supported_files, 1, idx - 1) /\ ret = NoRet)
        /\ (LostCalls # {} /\ dpc = "done") =>
              /\ Refs(Calls) = supported_files
              /\ ret.kind = "return"
              /\ Len(ret.value) = Cardinality({ i \in 1..Len(Calls) : Calls[i].ok })

\* C21 witness: a.pdf was deleted after the enumeration and before its
\* call; its call raised FileError, c.PNG after it was processed, and the
\* run returned the one record of c.PNG
C21_Witness ==
    /\ branch = "dir" /\ dpc = "done"
    /\ removed = {N_a_pdf}
    /\ Len(Calls) = 2
    /\ Basename(Calls[1].ref) = N_a_pdf
    /\ Calls[1].raw = "FileNotFoundError"
    /\ Calls[1].exc.cls = "FileError"
    /\ Calls[2].ok
    /\ ret.kind = "return"
    /\ Labels(ret.value) = <<N_c_PNG>>

\* the request hands client-supplied URL strings to the dispatcher
UrlRequest ==
    \/ caller = "batch"
    \/ caller = "process" /\ req.process_type = "url"

\* C22: for a request of POST /ocr/batch, or of POST /ocr/process in URL
\* mode, every string handed to the dispatcher begins with http:// or
\* https://, the dispatcher takes no branch but the URL one, every client
\* call is made with such a string and none of them opens a local file, and
\* no temporary file is made.
C22_ClientStringsAreUrls ==
    UrlRequest =>
        /\ \A i \in 1..Len(invocations) : HasUrlPrefix(invocations[i])
        /\ branch \in {"none", "url"}
        /\ \A i \in 1..Len(callLog) :
              /\ HasUrlPrefix(callLog[i].ref)
              /\ \E k \in 1..Len(invocations) : invocations[k] = callLog[i].ref
              /\ callLog[i].raw \notin {"FileNotFoundError", "PermissionError"}
              /\ ~IsInstance(callLog[i].exc.cls, "FileError")
        /\ temp_file_path = <<>>
        /\ fs = EmptyFs

\* C22 witness: a batch whose first URL was written HTTP://a by the client
\* reached the dispatcher as http://a/ and took the URL branch, twice
C22_Witness ==
    /\ caller = "batch"
    /\ Len(invocations) = 2
    /\ invocations[1] = HttpUrl(S_HTTP_a).str
    /\ invocations[1] # S_HTTP_a
    /\ invocations[1] = <<"h","t","t","p",":","/","/","a","/">>
    /\ branch = "url"
    /\ Len(callLog) = 2

\* cli mode ended on a directory in which no file was processed with
\* success: process_documents returned the empty sequence
EmptyDirectoryRun ==
    /\ Ended("cli")
    /\ branch = "dir"
    /\ ret = Return(<<>>)

====
